---------------------------- MODULE Spec2Model ----------------------------
(***************************************************************************)
(* The Drop Zone storefront backend (src/main.py): the cart handlers       *)
(* get_cart, add_to_cart and update_cart over the "cart" and "product"     *)
(* collections of the document store.                                      *)
(*                                                                         *)
(* Every handler is a plain `def` endpoint, so the framework runs each     *)
(* request on a worker thread and requests overlap.  A handler is modelled *)
(* as a little process: one action per round trip to the store (find_one,  *)
(* insert_one, update_one), with the in-process code that follows the      *)
(* round trip folded into the same action.                                 *)
(*                                                                         *)
(* Money is counted in mills (1/1000 of a dollar) so that round(x, 2) is   *)
(* a real conversion: 55.0 is 55000, 1.004 is 1004.                        *)
(***************************************************************************)
EXTENDS Integers, Sequences, FiniteSets, TLC

(***************************************************************************)
(* Bounds of the model.                                                    *)
(***************************************************************************)
\* at most this many add_to_cart requests are started in one behaviour
MaxAdds == 2

\* SpecView: the quantities of the line items a fetch is tried on are 1..MaxViewQty
MaxViewQty == 3

\* verify_otp calls that get as far as minting a session
MaxSessions == 2

\* Python's None, for an Optional[str] field
NONE == "<None>"

Threads == {"t1", "t2"}
CartIds == {"c1", "c2"}

(***************************************************************************)
(* The product collection.  Sample is the catalogue of seed_products.      *)
(***************************************************************************)
SizeStock(size, stock) == [size |-> size, stock |-> stock]

Sample ==
    << [slug |-> "stealth-hoodie", price |-> 120000,
        sizes |-> << SizeStock("S", 8), SizeStock("M", 2),
                     SizeStock("L", 0), SizeStock("XL", 5) >>],
       [slug |-> "crest-tee", price |-> 55000,
        sizes |-> << SizeStock("S", 15), SizeStock("M", 12),
                     SizeStock("L", 6), SizeStock("XL", 1) >>],
       [slug |-> "volt-sneaker", price |-> 220000,
        sizes |-> << SizeStock("7", 3), SizeStock("8", 0),
                     SizeStock("9", 4), SizeStock("10", 2) >>] >>

\* the same three products after the catalogue drifted: the hoodie's first
\* size sold out and its price changed, the tee is sold out in every size,
\* the sneaker declares no sizes
Restocked ==
    << [slug |-> "stealth-hoodie", price |-> 119994,
        sizes |-> << SizeStock("S", 0), SizeStock("M", 2),
                     SizeStock("L", 0), SizeStock("XL", 5) >>],
       [slug |-> "crest-tee", price |-> 55000,
        sizes |-> << SizeStock("S", 0), SizeStock("M", 0),
                     SizeStock("L", 0), SizeStock("XL", 0) >>],
       [slug |-> "volt-sneaker", price |-> 220000,
        sizes |-> << >>] >>

Catalogs == {Sample, Restocked}

SlugInputs == {"stealth-hoodie", "crest-tee", "volt-sneaker", "no-such-slug"}

(***************************************************************************)
(* Request payloads.                                                       *)
(***************************************************************************)
\* QuickAdd(slug, size=None, qty=1)
QuickAdd(cid, slug, size, qty) ==
    [op |-> "add", cid |-> cid, slug |-> slug, size |-> size,
     hasQty |-> TRUE, qty |-> qty, remove |-> FALSE]

\* UpdateItem(slug, size, qty=None, remove=False); qty is read only if hasQty
UpdateItem(cid, slug, size, hasQty, qty, remove) ==
    [op |-> "update", cid |-> cid, slug |-> slug, size |-> size,
     hasQty |-> hasQty, qty |-> IF hasQty THEN qty ELSE 0, remove |-> remove]

GetReq(cid) ==
    [op |-> "get", cid |-> cid, slug |-> NONE, size |-> NONE,
     hasQty |-> FALSE, qty |-> 0, remove |-> FALSE]

NoReq == [op |-> "none", cid |-> NONE, slug |-> NONE, size |-> NONE,
          hasQty |-> FALSE, qty |-> 0, remove |-> FALSE]

\* the requests over the given cart ids, slugs, size labels and quantities;
\* an add may also leave the size out
GetRequests(cids) == {GetReq(cid) : cid \in cids}

AddRequests(cids, slugs, sizes, qtys) ==
    {QuickAdd(cid, slug, size, qty) :
        cid \in cids, slug \in slugs, size \in sizes \cup {NONE}, qty \in qtys}

UpdateRequests(cids, slugs, sizes, qtys) ==
    {UpdateItem(cid, slug, size, hasQty, qty, remove) :
        cid \in cids, slug \in slugs, size \in sizes,
        hasQty \in BOOLEAN, qty \in qtys, remove \in BOOLEAN}

(***************************************************************************)
(* Pure helpers.                                                           *)
(***************************************************************************)
Min(S) == CHOOSE x \in S : \A y \in S : x <= y

Max(a, b) == IF a >= b THEN a ELSE b

\* `not size` for an Optional[str]
Falsy(s) == s = NONE \/ s = ""

\* db["product"].find_one({"slug": slug}): position of the first match, 0 for None
FindProduct(coll, slug) ==
    LET hits == {i \in 1..Len(coll) : coll[i].slug = slug}
    IN  IF hits = {} THEN 0 ELSE Min(hits)

\* db["cart"].find_one({"_id": cart_id}): position of the first match, 0 for None
FindCart(coll, cid) ==
    LET hits == {i \in 1..Len(coll) : coll[i].id = cid}
    IN  IF hits = {} THEN 0 ELSE Min(hits)

\* db["cart"].update_one({"_id": cart_id}, {"$set": {"items": items}}):
\* the first matching document gets the items, no document means no write
SetItems(coll, cid, items) ==
    LET i == FindCart(coll, cid)
    IN  IF i = 0 THEN coll ELSE [coll EXCEPT ![i].items = items]

\* FirstAvailable without the stock test: the first declared size
FirstDeclared(sizes) ==
    IF sizes = << >> THEN NONE ELSE sizes[1].size

\* next((s.get("size") for s in sizes if s.get("stock", 0) > 0), None)
FirstAvailable(sizes) ==
    LET hits == {i \in 1..Len(sizes) : sizes[i].stock > 0}
    IN  IF hits = {} THEN NONE ELSE sizes[Min(hits)].size

\* size = payload.size; if not size: size = first available
ResolveSize(size, p) ==
    IF Falsy(size) THEN FirstAvailable(p.sizes) ELSE size

\* AddItems without the search for an existing item: always appends
AddItemsAppend(items, slug, size, qty) ==
    Append(items, [slug |-> slug, size |-> size, qty |-> Max(1, qty)])

\* AddItems without the floor max(1, qty)
AddItemsNoFloor(items, slug, size, qty) ==
    LET hits == {i \in 1..Len(items) :
                    items[i].slug = slug /\ items[i].size = size}
    IN  IF hits # {}
        THEN [items EXCEPT ![Min(hits)].qty = @ + qty]
        ELSE Append(items, [slug |-> slug, size |-> size, qty |-> qty])

\* AddItems that overwrites the quantity of an existing item
AddItemsSet(items, slug, size, qty) ==
    LET hits == {i \in 1..Len(items) :
                    items[i].slug = slug /\ items[i].size = size}
    IN  IF hits # {}
        THEN [items EXCEPT ![Min(hits)].qty = Max(1, qty)]
        ELSE Append(items, [slug |-> slug, size |-> size, qty |-> Max(1, qty)])

\* the merge of add_to_cart: bump the first item with the pair, or append
AddItems(items, slug, size, qty) ==
    LET hits == {i \in 1..Len(items) :
                    items[i].slug = slug /\ items[i].size = size}
    IN  IF hits # {}
        THEN [items EXCEPT ![Min(hits)].qty = @ + Max(1, qty)]
        ELSE Append(items, [slug |-> slug, size |-> size, qty |-> Max(1, qty)])

\* UpdateItems where remove takes one unit off and drops the item at zero
RECURSIVE UpdateItemsDecrement(_, _, _, _, _, _)
UpdateItemsDecrement(items, slug, size, hasQty, qty, remove) ==
    IF items = << >> THEN << >>
    ELSE LET it   == Head(items)
             rest == UpdateItemsDecrement(Tail(items), slug, size, hasQty, qty, remove)
         IN  IF it.slug = slug /\ it.size = size
             THEN IF remove
                  THEN IF it.qty <= 1 THEN rest
                       ELSE << [it EXCEPT !.qty = @ - 1] >> \o rest
                  ELSE IF hasQty /\ qty <= 0
                       THEN rest
                       ELSE IF hasQty
                            THEN << [it EXCEPT !.qty = qty] >> \o rest
                            ELSE << it >> \o rest
             ELSE << it >> \o rest

\* UpdateItems with `payload.qty < 0` for `payload.qty <= 0`
RECURSIVE UpdateItemsStrict(_, _, _, _, _, _)
UpdateItemsStrict(items, slug, size, hasQty, qty, remove) ==
    IF items = << >> THEN << >>
    ELSE LET it   == Head(items)
             rest == UpdateItemsStrict(Tail(items), slug, size, hasQty, qty, remove)
         IN  IF it.slug = slug /\ it.size = size
             THEN IF remove \/ (hasQty /\ qty < 0)
                  THEN rest
                  ELSE IF hasQty
                       THEN << [it EXCEPT !.qty = qty] >> \o rest
                       ELSE << it >> \o rest
             ELSE << it >> \o rest

\* UpdateItems that adds payload.qty to the quantity of the line
RECURSIVE UpdateItemsIncrement(_, _, _, _, _, _)
UpdateItemsIncrement(items, slug, size, hasQty, qty, remove) ==
    IF items = << >> THEN << >>
    ELSE LET it   == Head(items)
             rest == UpdateItemsIncrement(Tail(items), slug, size, hasQty, qty, remove)
         IN  IF it.slug = slug /\ it.size = size
             THEN IF remove \/ (hasQty /\ qty <= 0)
                  THEN rest
                  ELSE IF hasQty
                       THEN << [it EXCEPT !.qty = it.qty + qty] >> \o rest
                       ELSE << it >> \o rest
             ELSE << it >> \o rest

\* the loop of update_cart that builds new_items
RECURSIVE UpdateItems(_, _, _, _, _, _)
UpdateItems(items, slug, size, hasQty, qty, remove) ==
    IF items = << >> THEN << >>
    ELSE LET it   == Head(items)
             rest == UpdateItems(Tail(items), slug, size, hasQty, qty, remove)
         IN  IF it.slug = slug /\ it.size = size
             THEN IF remove \/ (hasQty /\ qty <= 0)
                  THEN rest
                  ELSE IF hasQty
                       THEN << [it EXCEPT !.qty = qty] >> \o rest
                       ELSE << it >> \o rest
             ELSE << it >> \o rest

\* round(x, 2) on an amount in mills: to the nearest cent, ties to even
Round2(m) ==
    LET q == m \div 10
        r == m % 10
    IN  IF r < 5 THEN 10 * q
        ELSE IF r > 5 THEN 10 * (q + 1)
        ELSE IF q % 2 = 0 THEN 10 * q ELSE 10 * (q + 1)

\* RawSubtotal that adds the price once per line, whatever the quantity
RECURSIVE RawSubtotalPerLine(_, _)
RawSubtotalPerLine(items, coll) ==
    IF items = << >> THEN 0
    ELSE LET it == Head(items)
             i  == FindProduct(coll, it.slug)
         IN  (IF i = 0 THEN 0 ELSE coll[i].price)
             + RawSubtotalPerLine(Tail(items), coll)

\* subtotal += item.get("qty", 1) * float(p.get("price", 0)) over the items
RECURSIVE RawSubtotal(_, _)
RawSubtotal(items, coll) ==
    IF items = << >> THEN 0
    ELSE LET it == Head(items)
             i  == FindProduct(coll, it.slug)
         IN  (IF i = 0 THEN 0 ELSE it.qty * coll[i].price)
             + RawSubtotal(Tail(items), coll)

\* the item as get_cart returns it: price attached when the product resolves
EnrichItem(it, coll) ==
    LET i == FindProduct(coll, it.slug)
    IN  [slug |-> it.slug, size |-> it.size, qty |-> it.qty,
         enriched |-> i # 0, price |-> IF i = 0 THEN 0 ELSE coll[i].price]

Enrich(items, coll) == [k \in 1..Len(items) |-> EnrichItem(items[k], coll)]

(***************************************************************************)
(* State.                                                                  *)
(*   product  the product collection, a sequence of documents              *)
(*   cart     the cart collection, documents in insertion order:           *)
(*            [id, items, subtotal], subtotal TRUE when the document       *)
(*            carries a "subtotal" field                                    *)
(*   pc, req, loc   per request thread: position in the handler, payload,  *)
(*            and the handler's locals (resolved size, items read)         *)
(*   nadds    add_to_cart requests started so far                          *)
(*   serial   TRUE when requests are issued one at a time (by thread t1)   *)
(*   audit    how many finished requests the log keeps                     *)
(*   pre      per thread, the cart's documents when its request started    *)
(*   log      the last `audit` finished requests, oldest first (a request  *)
(*            that starts makes room for its own record): the              *)
(*            request, the size it resolved, the items it read, the        *)
(*            cart's documents before and after, outcome and response body *)
(*   otp      the otp collection, documents [phone, code]                  *)
(*   session  the session collection, documents [id, phone]                *)
(*   nids     ObjectIds generated so far by this process                   *)
(***************************************************************************)
VARIABLES product, cart, pc, req, loc, nadds, serial, audit, pre, log,
          otp, session, nids

vars == << product, cart, pc, req, loc, nadds, serial, audit, pre, log,
           otp, session, nids >>

\* the collections and counters of the authentication handlers
auth == << otp, session, nids >>

NoLoc == [size |-> NONE, items |-> << >>]

NoRet == [items |-> << >>, subtotal |-> 0]

\* the documents of the cart collection with this _id
CartDocs(coll, cid) == SelectSeq(coll, LAMBDA d : d.id = cid)

\* a request may start: the thread is idle; when serial, one thread takes
\* all the requests, so that no two of them overlap
CanStart(t) ==
    /\ pc[t] = "idle"
    /\ serial => t = "t1"

Start(t, r, first) ==
    /\ CanStart(t)
    /\ pc'  = [pc EXCEPT ![t] = first]
    /\ req' = [req EXCEPT ![t] = r]
    /\ loc' = [loc EXCEPT ![t] = NoLoc]
    /\ pre' = [pre EXCEPT ![t] = IF audit > 0 THEN CartDocs(cart, r.cid) ELSE << >>]
    /\ log' = IF audit > 0 /\ Len(log) >= audit THEN Tail(log) ELSE log
    /\ UNCHANGED << product, cart, serial, audit, auth >>

\* the handler returns or raises: the thread is idle again
Finish(t, result, body, coll) ==
    /\ pc'  = [pc EXCEPT ![t] = "idle"]
    /\ req' = [req EXCEPT ![t] = NoReq]
    /\ loc' = [loc EXCEPT ![t] = NoLoc]
    /\ pre' = [pre EXCEPT ![t] = << >>]
    /\ log' = IF audit > 0
              THEN Append(log, [t |-> t, req |-> req[t],
                                size |-> loc[t].size,
                                read |-> loc[t].items,
                                pre  |-> pre[t],
                                post |-> CartDocs(coll, req[t].cid),
                                res  |-> result, ret |-> body])
              ELSE log
    /\ UNCHANGED << product, serial, audit, auth >>

Goto(t, label, l) ==
    /\ pc'  = [pc EXCEPT ![t] = label]
    /\ loc' = [loc EXCEPT ![t] = l]
    /\ UNCHANGED << product, req, nadds, serial, audit, pre, log, auth >>

(***************************************************************************)
(* GET /api/cart/{cart_id}                                                 *)
(***************************************************************************)
StartGet(t, r) ==
    /\ r.op = "get"
    /\ Start(t, r, "get_find")
    /\ UNCHANGED nadds

\* GetFind that takes the cart for absent without looking
GetFindBlind(t) ==
    /\ pc[t] = "get_find"
    /\ Goto(t, "get_insert", loc[t])
    /\ UNCHANGED cart

\* cart = db["cart"].find_one({"_id": cart_id}); if not cart: ...
GetFind(t) ==
    /\ pc[t] = "get_find"
    /\ LET i == FindCart(cart, req[t].cid)
       IN  IF i = 0
           THEN Goto(t, "get_insert", loc[t])
           ELSE Goto(t, "get_enrich", [loc[t] EXCEPT !.items = cart[i].items])
    /\ UNCHANGED cart

\* cart = {"_id": cart_id, "items": [], "subtotal": 0}; db["cart"].insert_one(cart)
\* The store keeps _id unique: a second document with the _id is refused.
GetInsert(t) ==
    /\ pc[t] = "get_insert"
    /\ IF FindCart(cart, req[t].cid) # 0
       THEN /\ Finish(t, "DuplicateKey", NoRet, cart)
            /\ UNCHANGED << cart, nadds >>
       ELSE /\ cart' = Append(cart, [id |-> req[t].cid, items |-> << >>,
                                     subtotal |-> TRUE])
            /\ Goto(t, "get_enrich", [loc[t] EXCEPT !.items = << >>])

\* the enrichment loop and the rounded subtotal; the response is the cart
GetEnrich(t) ==
    /\ pc[t] = "get_enrich"
    /\ Finish(t, "ok",
              [items    |-> Enrich(loc[t].items, product),
               subtotal |-> Round2(RawSubtotal(loc[t].items, product))],
              cart)
    /\ UNCHANGED << cart, nadds >>

(***************************************************************************)
(* POST /api/cart/{cart_id}/add                                            *)
(***************************************************************************)
StartAdd(t, r) ==
    /\ r.op = "add"
    /\ nadds < MaxAdds
    /\ Start(t, r, "add_product")
    /\ nadds' = nadds + 1

\* AddProduct that creates the cart document before it looks the product up
AddProductCreateFirst(t) ==
    /\ pc[t] = "add_product"
    /\ cart' = IF FindCart(cart, req[t].cid) = 0
               THEN Append(cart, [id |-> req[t].cid, items |-> << >>,
                                  subtotal |-> FALSE])
               ELSE cart
    /\ LET i == FindProduct(product, req[t].slug)
       IN  IF i = 0
           THEN /\ Finish(t, "NotFound", NoRet, cart')
                /\ UNCHANGED nadds
           ELSE LET size == ResolveSize(req[t].size, product[i])
                IN  IF Falsy(size)
                    THEN /\ Finish(t, "InvalidState", NoRet, cart')
                         /\ UNCHANGED nadds
                    ELSE Goto(t, "add_find", [loc[t] EXCEPT !.size = size])

\* AddProduct that takes an explicit size without looking the product up
AddProductUnchecked(t) ==
    /\ pc[t] = "add_product"
    /\ LET i == FindProduct(product, req[t].slug)
           size == IF i = 0 THEN req[t].size
                   ELSE ResolveSize(req[t].size, product[i])
       IN  IF Falsy(size)
           THEN /\ Finish(t, IF i = 0 THEN "NotFound" ELSE "InvalidState",
                          NoRet, cart)
                /\ UNCHANGED nadds
           ELSE Goto(t, "add_find", [loc[t] EXCEPT !.size = size])
    /\ UNCHANGED cart

\* p = db["product"].find_one({"slug": payload.slug}) and the size resolution
AddProduct(t) ==
    /\ pc[t] = "add_product"
    /\ LET i == FindProduct(product, req[t].slug)
       IN  IF i = 0
           THEN /\ Finish(t, "NotFound", NoRet, cart)
                /\ UNCHANGED nadds
           ELSE LET size == ResolveSize(req[t].size, product[i])
                IN  IF Falsy(size)
                    THEN /\ Finish(t, "InvalidState", NoRet, cart)
                         /\ UNCHANGED nadds
                    ELSE Goto(t, "add_find", [loc[t] EXCEPT !.size = size])
    /\ UNCHANGED cart

\* cart = db["cart"].find_one({"_id": cart_id}); if not cart: ...
AddFind(t) ==
    /\ pc[t] = "add_find"
    /\ LET i == FindCart(cart, req[t].cid)
       IN  IF i = 0
           THEN Goto(t, "add_insert", loc[t])
           ELSE Goto(t, "add_write", [loc[t] EXCEPT !.items = cart[i].items])
    /\ UNCHANGED cart

\* AddInsert that goes on without creating the cart document
AddInsertSkip(t) ==
    /\ pc[t] = "add_insert"
    /\ Goto(t, "add_write", [loc[t] EXCEPT !.items = << >>])
    /\ UNCHANGED cart

\* cart = {"_id": cart_id, "items": []}; db["cart"].insert_one(cart)
AddInsert(t) ==
    /\ pc[t] = "add_insert"
    /\ IF FindCart(cart, req[t].cid) # 0
       THEN /\ Finish(t, "DuplicateKey", NoRet, cart)
            /\ UNCHANGED << cart, nadds >>
       ELSE /\ cart' = Append(cart, [id |-> req[t].cid, items |-> << >>,
                                     subtotal |-> FALSE])
            /\ Goto(t, "add_write", [loc[t] EXCEPT !.items = << >>])

\* AddWrite as an item-level merge into the array as the store holds it now
AddWriteMerge(t) ==
    /\ pc[t] = "add_write"
    /\ cart' = SetItems(cart, req[t].cid,
                        AddItems(cart[FindCart(cart, req[t].cid)].items,
                                 req[t].slug, loc[t].size, req[t].qty))
    /\ Finish(t, "ok", NoRet, cart')
    /\ UNCHANGED nadds

\* the merge into the items read, and the write of the whole array
AddWrite(t) ==
    /\ pc[t] = "add_write"
    /\ cart' = SetItems(cart, req[t].cid,
                        AddItems(loc[t].items, req[t].slug, loc[t].size, req[t].qty))
    /\ Finish(t, "ok", NoRet, cart')
    /\ UNCHANGED nadds

(***************************************************************************)
(* POST /api/cart/{cart_id}/update                                         *)
(***************************************************************************)
StartUpdate(t, r) ==
    /\ r.op = "update"
    /\ Start(t, r, "upd_find")
    /\ UNCHANGED nadds

\* UpdFind with the get-or-create of the other two handlers
UpdFindCreate(t) ==
    /\ pc[t] = "upd_find"
    /\ LET i == FindCart(cart, req[t].cid)
       IN  IF i = 0
           THEN /\ cart' = Append(cart, [id |-> req[t].cid, items |-> << >>,
                                         subtotal |-> FALSE])
                /\ Goto(t, "upd_write", [loc[t] EXCEPT !.items = << >>])
           ELSE /\ Goto(t, "upd_write", [loc[t] EXCEPT !.items = cart[i].items])
                /\ UNCHANGED cart

\* cart = db["cart"].find_one({"_id": cart_id}); if not cart: raise 404
UpdFind(t) ==
    /\ pc[t] = "upd_find"
    /\ LET i == FindCart(cart, req[t].cid)
       IN  IF i = 0
           THEN /\ Finish(t, "NotFound", NoRet, cart)
                /\ UNCHANGED nadds
           ELSE Goto(t, "upd_write", [loc[t] EXCEPT !.items = cart[i].items])
    /\ UNCHANGED cart

\* new_items from the items read, and the write of the whole array
UpdWrite(t) ==
    /\ pc[t] = "upd_write"
    /\ cart' = SetItems(cart, req[t].cid,
                        UpdateItems(loc[t].items, req[t].slug, req[t].size,
                                    req[t].hasQty, req[t].qty, req[t].remove))
    /\ Finish(t, "ok", NoRet, cart')
    /\ UNCHANGED nadds

(***************************************************************************)
(* Authentication (demo OTP).  A str is a sequence of characters.          *)
(***************************************************************************)
Whitespace == {" ", "\t"}

\* str.strip(): leading and trailing whitespace removed
StripNone(s) == s

RECURSIVE LStrip(_)
LStrip(s) ==
    IF s # << >> /\ Head(s) \in Whitespace THEN LStrip(Tail(s)) ELSE s

RECURSIVE RStrip(_)
RStrip(s) ==
    IF s # << >> /\ s[Len(s)] \in Whitespace
    THEN RStrip(SubSeq(s, 1, Len(s) - 1))
    ELSE s

Strip(s) == RStrip(LStrip(s))

\* the code every request_otp stores
DemoCode == "123456"

\* request payloads
OTPRequest(phone) == [op |-> "request_otp", phone |-> phone, code |-> NONE]

OTPVerify(phone, code) == [op |-> "verify_otp", phone |-> phone, code |-> code]

\* find_one({"phone": phone}): index of the first match, 0 for None
FindOtp(coll, phone) ==
    IF \E i \in DOMAIN coll : coll[i].phone = phone
    THEN Min({i \in DOMAIN coll : coll[i].phone = phone})
    ELSE 0

\* update_one({"phone": phone}, {"$set": {phone, code}}, upsert=True)
Upsert(coll, phone, code) ==
    LET i == FindOtp(coll, phone) IN
    IF i = 0
    THEN Append(coll, [phone |-> phone, code |-> code])
    ELSE [coll EXCEPT ![i] = [phone |-> phone, code |-> code]]

\* a starting request makes room in the log for its own record
Room(l) == IF audit > 0 /\ Len(l) >= audit THEN Tail(l) ELSE l

\* the record of a finished authentication request: the collections
\* before and after its last store operation, outcome and response
AuthEntry(t, r, result, body, o, s) ==
    [t |-> t, req |-> r, res |-> result, ret |-> body,
     pre  |-> [otp |-> otp, session |-> session],
     post |-> [otp |-> o, session |-> s]]

Logged(l, entry) == IF audit > 0 THEN Append(l, entry) ELSE l

\* POST /api/auth/request-otp: the whole handler, one store operation
RequestOtp(t, r) ==
    /\ CanStart(t)
    /\ r.op = "request_otp"
    /\ LET phone == Strip(r.phone) IN
       IF phone = << >>
       THEN /\ otp' = otp
            /\ log' = Logged(Room(log),
                             AuthEntry(t, r, "InvalidInput", NONE, otp, session))
       ELSE /\ otp' = Upsert(otp, phone, DemoCode)
            /\ log' = Logged(Room(log),
                             AuthEntry(t, r, "ok", DemoCode, otp', session))
    /\ UNCHANGED << product, cart, pc, req, loc, nadds, serial, audit, pre,
                    session, nids >>

\* POST /api/auth/verify-otp: the lookup and the check of the code
VerifyFindAnyCode(t, r) ==
    /\ CanStart(t)
    /\ r.op = "verify_otp"
    /\ nids + Cardinality({u \in Threads : pc[u] = "verify_insert"}) < MaxSessions
    /\ IF FindOtp(otp, r.phone) = 0
       THEN /\ log' = Logged(Room(log),
                             AuthEntry(t, r, "Unauthorized", NONE, otp, session))
            /\ UNCHANGED << pc, req >>
       ELSE /\ pc'  = [pc EXCEPT ![t] = "verify_insert"]
            /\ req' = [req EXCEPT ![t] = r]
            /\ log' = Room(log)
    /\ UNCHANGED << product, cart, loc, nadds, serial, audit, pre, auth >>

VerifyFind(t, r) ==
    /\ CanStart(t)
    /\ r.op = "verify_otp"
    /\ nids + Cardinality({u \in Threads : pc[u] = "verify_insert"}) < MaxSessions
    /\ LET doc == FindOtp(otp, r.phone) IN
       IF doc = 0 \/ r.code # otp[doc].code
       THEN /\ log' = Logged(Room(log),
                             AuthEntry(t, r, "Unauthorized", NONE, otp, session))
            /\ UNCHANGED << pc, req >>
       ELSE /\ pc'  = [pc EXCEPT ![t] = "verify_insert"]
            /\ req' = [req EXCEPT ![t] = r]
            /\ log' = Room(log)
    /\ UNCHANGED << product, cart, loc, nadds, serial, audit, pre, auth >>

\* ObjectId(): a value no earlier call of this process returned
ObjectId == nids + 1

\* session_id = str(ObjectId()); insert_one({"_id": ..., "phone": ...})
VerifyInsertConsume(t) ==
    /\ pc[t] = "verify_insert"
    /\ nids' = nids + 1
    /\ session' = Append(session, [id |-> ObjectId, phone |-> req[t].phone])
    /\ otp' = SelectSeq(otp, LAMBDA d : d.phone # req[t].phone)
    /\ pc'  = [pc EXCEPT ![t] = "idle"]
    /\ req' = [req EXCEPT ![t] = NoReq]
    /\ log' = Logged(log, AuthEntry(t, req[t], "ok", ObjectId, otp', session'))
    /\ UNCHANGED << product, cart, loc, nadds, serial, audit, pre >>

VerifyInsert(t) ==
    /\ pc[t] = "verify_insert"
    /\ nids' = nids + 1
    /\ session' = Append(session, [id |-> ObjectId, phone |-> req[t].phone])
    /\ pc'  = [pc EXCEPT ![t] = "idle"]
    /\ req' = [req EXCEPT ![t] = NoReq]
    /\ log' = Logged(log, AuthEntry(t, req[t], "ok", ObjectId, otp, session'))
    /\ UNCHANGED << product, cart, loc, nadds, serial, audit, pre, otp >>

(***************************************************************************)
(* POST /api/seed                                                          *)
(***************************************************************************)
\* create_document("product", prod): the document is inserted
CreateDocument(coll, doc) == Append(coll, doc)

\* the positions of the loop over the sample products
SeedLabel == << "seed_1", "seed_2", "seed_3" >>

\* count = db["product"].count_documents({}); if count > 0: return
SeedCount(t) ==
    /\ CanStart(t)
    /\ pc' = [pc EXCEPT ![t] = IF Len(product) > 0 THEN "idle" ELSE SeedLabel[1]]
    /\ log' = Room(log)
    /\ UNCHANGED << product, cart, req, loc, nadds, serial, audit, pre, auth >>

\* for prod in sample: create_document("product", prod)
SeedInsert(t) ==
    /\ \E i \in 1..Len(Sample) :
          /\ pc[t] = SeedLabel[i]
          /\ product' = CreateDocument(product, Sample[i])
          /\ pc' = [pc EXCEPT ![t] = IF i < Len(Sample) THEN SeedLabel[i + 1]
                                     ELSE "seed_recount"]
    /\ UNCHANGED << cart, req, loc, nadds, serial, audit, pre, log, auth >>

\* seeded = db["product"].count_documents({}); return
SeedRecount(t) ==
    /\ pc[t] = "seed_recount"
    /\ pc' = [pc EXCEPT ![t] = "idle"]
    /\ UNCHANGED << product, cart, req, loc, nadds, serial, audit, pre, log, auth >>

(***************************************************************************)
(* Specifications.                                                         *)
(***************************************************************************)
InitStore ==
    /\ product \in Catalogs
    /\ cart = << >>
    /\ pc  = [t \in Threads |-> "idle"]
    /\ req = [t \in Threads |-> NoReq]
    /\ loc = [t \in Threads |-> NoLoc]
    /\ pre = [t \in Threads |-> << >>]
    /\ log = << >>
    /\ nadds = 0
    /\ otp = << >>
    /\ session = << >>
    /\ nids = 0

Init ==
    /\ InitStore
    /\ serial = FALSE
    /\ audit = 0

\* one step of a request thread, new requests drawn from R
Gets(R) ==
    \E t \in Threads :
        \/ \E r \in R : StartGet(t, r)
        \/ GetFind(t)
        \/ GetInsert(t)
        \/ GetEnrich(t)

Adds(R) ==
    \E t \in Threads :
        \/ \E r \in R : StartAdd(t, r)
        \/ AddProduct(t)
        \/ AddFind(t)
        \/ AddInsert(t)
        \/ AddWrite(t)

Updates(R) ==
    \E t \in Threads :
        \/ \E r \in R : StartUpdate(t, r)
        \/ UpdFind(t)
        \/ UpdWrite(t)

\* Spec: requests overlap freely
RaceRequests ==
    GetRequests({"c1"})
      \cup AddRequests({"c1"}, {"stealth-hoodie", "no-such-slug"}, {"S"}, {-1, 0, 2})
      \cup UpdateRequests({"c1"}, {"stealth-hoodie"}, {"S", "M"}, {0, 2})

Next == Gets(RaceRequests) \/ Adds(RaceRequests) \/ Updates(RaceRequests)

Spec == Init /\ [][Next]_vars

\* SpecSeq: requests one at a time, the last finished request on record
InitSeq ==
    /\ InitStore
    /\ serial = TRUE
    /\ audit = 1

SeqRequests ==
    GetRequests(CartIds)
      \cup AddRequests(CartIds, {"stealth-hoodie", "crest-tee"}, {"S"}, {0})
      \cup UpdateRequests(CartIds, {"stealth-hoodie"}, {"S", "M"}, {-1, 0, 2})

NextSeq == Gets(SeqRequests) \/ Adds(SeqRequests) \/ Updates(SeqRequests)

SpecSeq == InitSeq /\ [][NextSeq]_vars

\* SpecTwice: requests one at a time, the last two finished requests on record
InitTwice ==
    /\ InitStore
    /\ serial = TRUE
    /\ audit = 2

TwiceRequests ==
    GetRequests(CartIds)
      \cup AddRequests({"c1"}, {"stealth-hoodie", "crest-tee"}, {"S"}, {0})
      \cup UpdateRequests({"c1"}, {"stealth-hoodie"}, {"S", "M"}, {2})

NextTwice == Gets(TwiceRequests) \/ Adds(TwiceRequests) \/ Updates(TwiceRequests)

SpecTwice == InitTwice /\ [][NextTwice]_vars

\* SpecAdds: add requests only, one at a time, every finished request on record
InitAdds ==
    /\ InitStore
    /\ serial = TRUE
    /\ audit = MaxAdds

AddsRequests == AddRequests(CartIds, SlugInputs, {"S"}, {-1, 0, 2})

NextAdds == Adds(AddsRequests)

SpecAdds == InitAdds /\ [][NextAdds]_vars

\* SpecRace: overlapping fetches and adds on one cart, nothing removes an
\* item, the last two finished requests on record
InitRace ==
    /\ InitStore
    /\ serial = FALSE
    /\ audit = 2

RacingRequests ==
    GetRequests({"c1"})
      \cup AddRequests({"c1"}, {"stealth-hoodie", "crest-tee"}, {"S"}, {2})

NextRace == Gets(RacingRequests) \/ Adds(RacingRequests)

SpecRace == InitRace /\ [][NextRace]_vars

\* SpecView: fetches of a cart whose line items are drawn from ViewItems,
\* among them items of a product the catalogue has lost
ViewSlugs == {"stealth-hoodie", "crest-tee", "no-such-slug"}

ViewLines == [slug : ViewSlugs, size : {"S"}, qty : 1..MaxViewQty]

\* sequences of lines, no slug twice
ViewItems ==
    {s \in UNION {[1..n -> ViewLines] : n \in 0..Cardinality(ViewSlugs)} :
        \A i, j \in DOMAIN s : i # j => s[i].slug # s[j].slug}

InitView ==
    /\ product \in Catalogs
    /\ \E items \in ViewItems :
          cart = << [id |-> "c1", items |-> items, subtotal |-> FALSE] >>
    /\ pc  = [t \in Threads |-> "idle"]
    /\ req = [t \in Threads |-> NoReq]
    /\ loc = [t \in Threads |-> NoLoc]
    /\ pre = [t \in Threads |-> << >>]
    /\ log = << >>
    /\ nadds = 0
    /\ otp = << >>
    /\ session = << >>
    /\ nids = 0
    /\ serial = TRUE
    /\ audit = 1

NextView == Gets(GetRequests(CartIds))

SpecView == InitView /\ [][NextView]_vars

\* SpecAuth: request_otp and verify_otp overlap freely; the log keeps
\* the last finished request
PhoneInputs ==
    {<< >>, <<" ">>, <<"7">>, <<" ", "7", "\t">>, <<"7", " ", "7">>, <<"\t", "8">>}

CodeInputs == {DemoCode, "000000"}

AuthRequests ==
    {OTPRequest(p) : p \in PhoneInputs}
      \cup {OTPVerify(p, c) : p \in PhoneInputs, c \in CodeInputs}

InitAuth ==
    /\ InitStore
    /\ serial = FALSE
    /\ audit = 1

NextAuth ==
    \E t \in Threads :
        \/ \E r \in AuthRequests : RequestOtp(t, r)
        \/ \E r \in AuthRequests : VerifyFind(t, r)
        \/ VerifyInsert(t)

SpecAuth == InitAuth /\ [][NextAuth]_vars

\* SpecLife: requests one at a time, the last finished request on record;
\* adds that fail on the slug or on the size, updates of absent carts
InitLife ==
    /\ InitStore
    /\ serial = TRUE
    /\ audit = 1

LifeRequests ==
    GetRequests(CartIds)
      \cup AddRequests(CartIds, SlugInputs, {"S"}, {0})
      \cup UpdateRequests(CartIds, {"stealth-hoodie"}, {"S"}, {2})

NextLife == Gets(LifeRequests) \/ Adds(LifeRequests) \/ Updates(LifeRequests)

SpecLife == InitLife /\ [][NextLife]_vars

\* SpecSeed: the catalogue starts empty; seed requests overlap with each
\* other, with fetches and adds, and with the authentication requests
InitSeed ==
    /\ product = << >>
    /\ cart = << >>
    /\ pc  = [t \in Threads |-> "idle"]
    /\ req = [t \in Threads |-> NoReq]
    /\ loc = [t \in Threads |-> NoLoc]
    /\ pre = [t \in Threads |-> << >>]
    /\ log = << >>
    /\ nadds = 0
    /\ otp = << >>
    /\ session = << >>
    /\ nids = 0
    /\ serial = FALSE
    /\ audit = 0

SeedRequests ==
    GetRequests({"c1"}) \cup AddRequests({"c1"}, {"crest-tee"}, {"S"}, {0})

SeedAuthRequests == {OTPRequest(<<"7">>), OTPVerify(<<"7">>, DemoCode)}

Seeds ==
    \E t \in Threads :
        \/ SeedCount(t)
        \/ SeedInsert(t)
        \/ SeedRecount(t)

NextSeed ==
    \/ Seeds
    \/ Gets(SeedRequests)
    \/ Adds(SeedRequests)
    \/ \E t \in Threads :
          \/ \E r \in SeedAuthRequests : RequestOtp(t, r)
          \/ \E r \in SeedAuthRequests : VerifyFind(t, r)
          \/ VerifyInsert(t)

SpecSeed == InitSeed /\ [][NextSeed]_vars

(***************************************************************************)
(* Properties.                                                             *)
(***************************************************************************)
SamePair(a, b) == a.slug = b.slug /\ a.size = b.size

\* the items of the sequence with this (slug, size)
WithPair(items, slug, size) ==
    SelectSeq(items, LAMBDA it : it.slug = slug /\ it.size = size)

\* the items of the sequence with another (slug, size)
WithoutPair(items, slug, size) ==
    SelectSeq(items, LAMBDA it : ~(it.slug = slug /\ it.size = size))

\* the items of the cart's first document, none when the cart is absent
ItemsOf(docs) == IF docs = << >> THEN << >> ELSE docs[1].items

\* C1 (Spec): in every reachable state, whatever the interleaving of cart
\* fetches, adds and updates, no cart document holds two line items with the
\* same (slug, size) pair.
C1_NoDuplicateLineItems ==
    \A d \in 1..Len(cart) :
        \A i, j \in 1..Len(cart[d].items) :
            SamePair(cart[d].items[i], cart[d].items[j]) => i = j

\* every add the behaviour may start has been started, and a cart holds
\* two line items, one of them merged from two adds or set by an update
C1_Witness ==
    /\ nadds = MaxAdds
    /\ \E d \in 1..Len(cart) :
          /\ Len(cart[d].items) >= 2
          /\ \E i \in 1..Len(cart[d].items) : cart[d].items[i].qty >= 2

\* C2 (SpecAdds): after any sequence of non-overlapping adds, for every cart
\* and every (slug, size) the successful adds were for (the size given, or
\* left out and resolved to it), the cart holds exactly one line item for the
\* pair and its quantity is the sum over those adds of max(1, qty).
C2_Effective(q) == IF q < 1 THEN 1 ELSE q

RECURSIVE C2_Sum(_, _, _, _)
C2_Sum(l, cid, slug, size) ==
    IF l = << >> THEN 0
    ELSE LET e == Head(l)
         IN  (IF /\ e.req.op = "add" /\ e.res = "ok"
                 /\ e.req.cid = cid /\ e.req.slug = slug
                 /\ \/ e.req.size = size
                    \/ e.req.size = NONE /\ e.size = size
              THEN C2_Effective(e.req.qty) ELSE 0)
             + C2_Sum(Tail(l), cid, slug, size)

\* the sizes some finished add resolved, or some line item of the cart has
C2_Sizes(cid) ==
    ({log[k].size : k \in 1..Len(log)} \ {NONE})
      \cup {ItemsOf(CartDocs(cart, cid))[i].size :
                i \in 1..Len(ItemsOf(CartDocs(cart, cid)))}

C2_AddsSumUp ==
    \A cid \in CartIds, slug \in SlugInputs :
        \A size \in C2_Sizes(cid) :
            LET n    == C2_Sum(log, cid, slug, size)
                mine == WithPair(ItemsOf(CartDocs(cart, cid)), slug, size)
            IN  IF n = 0 THEN mine = << >>
                ELSE Len(mine) = 1 /\ mine[1].qty = n

\* an add without size (qty coerced to 1) and then an add of 2 with the size
\* the first resolved to: one line item of quantity 3
C2_Witness ==
    /\ Len(log) >= 2
    /\ log[1].res = "ok" /\ log[2].res = "ok"
    /\ log[1].req.size = NONE /\ log[1].req.qty < 1
    /\ log[2].req.size = log[1].size /\ log[2].req.qty = 2
    /\ log[2].req.cid = log[1].req.cid /\ log[2].req.slug = log[1].req.slug
    /\ ItemsOf(CartDocs(cart, log[1].req.cid)) =
          << [slug |-> log[1].req.slug, size |-> log[1].size, qty |-> 3] >>

\* C3 (Spec): in every reachable state every persisted line item has a
\* quantity of at least 1, whatever quantities the adds and updates asked for.
C3_QuantitiesPositive ==
    \A d \in 1..Len(cart) :
        \A i \in 1..Len(cart[d].items) : cart[d].items[i].qty >= 1

\* a line item of quantity 1: the adds of Spec ask for -1, 0 or 2 and the
\* updates set 2, so it comes from an add whose quantity was coerced
C3_Witness ==
    \E d \in 1..Len(cart) :
        \E i \in 1..Len(cart[d].items) : cart[d].items[i].qty = 1

\* C4 (SpecRace): an add writes back the whole array it read, with its own
\* line merged in: whatever other requests wrote to the cart since the read
\* is overwritten.  Hence two overlapping adds can both return ok while the
\* cart keeps the line of only one of them (C4_Witness).
C4_WholeArrayWrite ==
    [][\A t \in Threads :
          (pc[t] = "add_write" /\ pc'[t] = "idle") =>
              WithoutPair(ItemsOf(CartDocs(cart', req[t].cid)),
                          req[t].slug, loc[t].size)
                = WithoutPair(loc[t].items, req[t].slug, loc[t].size)]_vars

\* two adds by different threads, for different pairs, both read the same
\* cart before either wrote, both returned ok, and the line of the first to
\* finish is not in the cart
C4_Witness ==
    /\ Len(log) = 2
    /\ log[1].t # log[2].t
    /\ log[1].req.op = "add" /\ log[2].req.op = "add"
    /\ log[1].res = "ok" /\ log[2].res = "ok"
    /\ log[1].req.cid = log[2].req.cid
    /\ log[1].read = log[2].read
    /\ ~(log[1].req.slug = log[2].req.slug /\ log[1].size = log[2].size)
    /\ WithPair(ItemsOf(log[1].post), log[1].req.slug, log[1].size) # << >>
    /\ WithPair(ItemsOf(CartDocs(cart, log[1].req.cid)),
                log[1].req.slug, log[1].size) = << >>
    /\ \A t \in Threads : pc[t] = "idle"

\* C5 (SpecRace): get-or-create is atomic: no request that gets or creates a
\* cart fails on the insert, and no cart identity has two documents.
C5_AtomicGetOrCreate ==
    /\ \A k \in 1..Len(log) : log[k].res # "DuplicateKey"
    /\ \A cid \in CartIds : Len(CartDocs(cart, cid)) <= 1

\* C6 (SpecTwice): a fetch of a cart identity that has no document returns ok
\* with no items and subtotal 0 and leaves one empty document; a second fetch
\* right after it returns the same and leaves the same single document.
C6_FreshFetchEmpty ==
    /\ \A k \in 1..Len(log) :
          (log[k].req.op = "get" /\ log[k].pre = << >>) =>
              /\ log[k].res = "ok"
              /\ log[k].ret.items = << >> /\ log[k].ret.subtotal = 0
              /\ Len(log[k].post) = 1 /\ log[k].post[1].items = << >>
    /\ ( /\ Len(log) = 2
         /\ log[1].req.op = "get" /\ log[2].req.op = "get"
         /\ log[1].req.cid = log[2].req.cid
         /\ log[1].pre = << >> ) =>
              /\ log[2].res = "ok"
              /\ log[2].ret = log[1].ret
              /\ log[2].pre = log[1].post /\ log[2].post = log[1].post
              /\ pc["t1"] = "idle" =>
                    CartDocs(cart, log[1].req.cid) = log[1].post

\* two fetches in a row of an identity that had no cart before the first
C6_Witness ==
    /\ Len(log) = 2
    /\ log[1].req.op = "get" /\ log[2].req.op = "get"
    /\ log[1].req.cid = log[2].req.cid
    /\ log[1].pre = << >>
    /\ log[2].res = "ok"

\* C7 (SpecAdds): an add without size on an existing product stores the line
\* under the first declared size whose stock is positive, and under no other
\* size; when no declared size has stock, or none is declared, it fails with
\* "no available size" and stores nothing.
C7_FirstInStock(sizes, i) ==
    /\ i \in 1..Len(sizes)
    /\ sizes[i].stock > 0
    /\ \A j \in 1..(i - 1) : sizes[j].stock = 0

C7_DefaultSize ==
    \A k \in 1..Len(log) : \A n \in 1..Len(product) :
        ( /\ log[k].req.op = "add"
          /\ log[k].req.size = NONE
          /\ product[n].slug = log[k].req.slug ) =>
            LET e     == log[k]
                sizes == product[n].sizes
            IN  IF \E i \in 1..Len(sizes) : sizes[i].stock > 0
                THEN /\ e.res = "ok"
                     /\ \E i \in 1..Len(sizes) :
                           /\ C7_FirstInStock(sizes, i)
                           /\ WithPair(ItemsOf(e.post), e.req.slug,
                                       sizes[i].size) # << >>
                           /\ WithoutPair(ItemsOf(e.post), e.req.slug,
                                          sizes[i].size) = ItemsOf(e.pre)
                              \/ WithPair(ItemsOf(e.pre), e.req.slug,
                                          sizes[i].size) # << >>
                           /\ WithoutPair(ItemsOf(e.post), e.req.slug,
                                          sizes[i].size)
                                = WithoutPair(ItemsOf(e.pre), e.req.slug,
                                              sizes[i].size)
                ELSE /\ e.res = "InvalidState"
                     /\ e.post = e.pre

\* an add without size stored under a size that is not the first declared:
\* the sizes before it are out of stock
C7_Witness ==
    \E k \in 1..Len(log) : \E n \in 1..Len(product) :
        /\ log[k].req.op = "add" /\ log[k].req.size = NONE
        /\ log[k].res = "ok"
        /\ product[n].slug = log[k].req.slug
        /\ product[n].sizes[1].size # log[k].size
        /\ WithPair(ItemsOf(log[k].post), log[k].req.slug, log[k].size) # << >>

\* C8 (SpecView): the subtotal of a fetch is the sum of quantity x catalogue
\* price over the line items whose slug is in the catalogue, rounded to the
\* nearest cent; the items come back in order, with the price attached when
\* the slug resolves and without enrichment when it does not.
C8_Resolves(slug) == \E n \in 1..Len(product) : product[n].slug = slug

C8_Price(slug) ==
    product[CHOOSE n \in 1..Len(product) :
                /\ product[n].slug = slug
                /\ \A m \in 1..(n - 1) : product[m].slug # slug].price

RECURSIVE C8_SumOver(_, _)
C8_SumOver(items, S) ==
    IF S = {} THEN 0
    ELSE LET i == CHOOSE x \in S : TRUE
         IN  items[i].qty * C8_Price(items[i].slug) + C8_SumOver(items, S \ {i})

C8_Exact(items) ==
    C8_SumOver(items, {i \in 1..Len(items) : C8_Resolves(items[i].slug)})

C8_Subtotal ==
    \A k \in 1..Len(log) :
        (log[k].req.op = "get" /\ log[k].res = "ok") =>
            LET items == ItemsOf(log[k].pre)
                ret   == log[k].ret
                exact == C8_Exact(items)
            IN  /\ ret.subtotal % 10 = 0
                /\ ret.subtotal - exact <= 5 /\ exact - ret.subtotal <= 5
                /\ Len(ret.items) = Len(items)
                /\ \A i \in 1..Len(items) :
                      /\ ret.items[i].slug = items[i].slug
                      /\ ret.items[i].size = items[i].size
                      /\ ret.items[i].qty = items[i].qty
                      /\ ret.items[i].enriched = C8_Resolves(items[i].slug)
                      /\ ret.items[i].enriched =>
                            ret.items[i].price = C8_Price(items[i].slug)

\* a fetch of a cart with a line that resolves and a line that does not,
\* whose exact sum is not a whole number of cents
C8_Witness ==
    \E k \in 1..Len(log) :
        /\ log[k].req.op = "get" /\ log[k].res = "ok"
        /\ \E i \in 1..Len(log[k].ret.items) : ~log[k].ret.items[i].enriched
        /\ \E i \in 1..Len(log[k].ret.items) :
              log[k].ret.items[i].enriched /\ log[k].ret.items[i].qty >= 2
        /\ log[k].ret.subtotal # C8_Exact(ItemsOf(log[k].pre))

\* C9 (SpecTwice): an update with remove=true on an existing cart, applied
\* twice in a row for the same (slug, size), returns ok both times and the
\* second application leaves the cart as the first left it.
C9_RemoveIdempotent ==
    ( /\ Len(log) = 2
      /\ log[1].req.op = "update" /\ log[2].req.op = "update"
      /\ log[1].req.remove /\ log[2].req.remove
      /\ log[1].req.cid = log[2].req.cid
      /\ log[1].req.slug = log[2].req.slug
      /\ log[1].req.size = log[2].req.size
      /\ log[1].pre # << >> ) =>
          /\ log[1].res = "ok" /\ log[2].res = "ok"
          /\ log[2].post = log[1].post

\* the same removal twice in a row, the first of which took a line of
\* quantity 2 or more out of a cart that keeps another line
C9_Witness ==
    /\ Len(log) = 2
    /\ log[1].req.op = "update" /\ log[2].req.op = "update"
    /\ log[1].req.remove /\ log[2].req.remove
    /\ log[1].req.cid = log[2].req.cid
    /\ log[1].req.slug = log[2].req.slug
    /\ log[1].req.size = log[2].req.size
    /\ log[2].res = "ok"
    /\ \E i \in 1..Len(ItemsOf(log[1].pre)) :
          /\ ItemsOf(log[1].pre)[i].slug = log[1].req.slug
          /\ ItemsOf(log[1].pre)[i].size = log[1].req.size
          /\ ItemsOf(log[1].pre)[i].qty >= 2
    /\ Len(ItemsOf(log[2].post)) = 1

\* C10 (SpecSeq): an update on an existing cart with a quantity <= 0 and
\* remove not set returns ok and leaves no line item with the (slug, size).
C10_NonPositiveRemoves ==
    \A k \in 1..Len(log) :
        ( /\ log[k].req.op = "update"
          /\ log[k].req.hasQty /\ log[k].req.qty <= 0
          /\ ~log[k].req.remove
          /\ log[k].pre # << >> ) =>
              /\ log[k].res = "ok"
              /\ Len(log[k].post) = 1
              /\ \A i \in 1..Len(log[k].post[1].items) :
                    ~( /\ log[k].post[1].items[i].slug = log[k].req.slug
                       /\ log[k].post[1].items[i].size = log[k].req.size )

\* an update with quantity 0, remove not set, on a cart that held the line
\* and another one
C10_Witness ==
    \E k \in 1..Len(log) :
        /\ log[k].req.op = "update" /\ log[k].res = "ok"
        /\ log[k].req.hasQty /\ log[k].req.qty = 0 /\ ~log[k].req.remove
        /\ WithPair(ItemsOf(log[k].pre), log[k].req.slug, log[k].req.size) # << >>
        /\ Len(ItemsOf(log[k].post)) >= 1


\* the codes the otp collection holds for a phone
StoredCodes(coll, phone) ==
    {coll[i].code : i \in {j \in DOMAIN coll : coll[j].phone = phone}}

\* the finished verify_otp requests of the log
VerifyEntries == {k \in DOMAIN log : log[k].req.op = "verify_otp"}

\* C11: a session is created only by a verification whose code is the code
\* stored for exactly the supplied phone: a verification for a phone without
\* an OTP record, or with another code, fails Unauthorized and leaves the
\* session collection as it was, and no request for a code touches the
\* session collection.
C11_OnlyMatchingCodeCreates ==
    \A k \in DOMAIN log :
        LET e == log[k]
            codes == StoredCodes(e.pre.otp, e.req.phone)
        IN  /\ e.post.session # e.pre.session =>
                 /\ e.req.op = "verify_otp"
                 /\ e.req.code \in codes
            /\ e.req.op = "verify_otp" /\ e.req.code \notin codes =>
                 /\ e.res = "Unauthorized"
                 /\ e.post.session = e.pre.session

\* a wrong code for a phone that has an OTP record and a session already,
\* and a right code for the untrimmed spelling of a registered phone
C11_Witness ==
    \E k \in VerifyEntries :
        /\ log[k].res = "Unauthorized"
        /\ log[k].pre.session # << >>
        /\ \/ /\ StoredCodes(log[k].pre.otp, log[k].req.phone) = {DemoCode}
              /\ log[k].req.code # DemoCode
           \/ /\ StoredCodes(log[k].pre.otp, log[k].req.phone) = {}
              /\ StoredCodes(log[k].pre.otp, <<"7">>) # {}
              /\ log[k].req.phone = <<" ", "7", "\t">>
              /\ log[k].req.code = DemoCode

\* C12: a successful verification appends exactly one session record, for
\* the supplied phone and under an identity no earlier session has, and
\* leaves the otp collection, the phone's record included, as it was; the
\* identities of the session collection are pairwise different.
C12_OneFreshSession ==
    /\ \A i, j \in DOMAIN session : i # j => session[i].id # session[j].id
    /\ \A k \in VerifyEntries :
          LET e == log[k] IN
          e.res = "ok" =>
             /\ Len(e.post.session) = Len(e.pre.session) + 1
             /\ SubSeq(e.post.session, 1, Len(e.pre.session)) = e.pre.session
             /\ e.post.session[Len(e.post.session)].phone = e.req.phone
             /\ e.post.session[Len(e.post.session)].id = e.ret
             /\ \A i \in DOMAIN e.pre.session : e.pre.session[i].id # e.ret
             /\ e.post.otp = e.pre.otp
             /\ StoredCodes(e.post.otp, e.req.phone) # {}

\* a phone that has a session already is verified once more
C12_Witness ==
    \E k \in VerifyEntries :
        /\ log[k].res = "ok"
        /\ \E i \in DOMAIN log[k].pre.session :
              log[k].pre.session[i].phone = log[k].req.phone
        /\ Len(session) = 2

\* s consists of whitespace only
Blank(s) == \A i \in DOMAIN s : s[i] \in Whitespace

\* p is s without its leading and trailing whitespace
IsTrimOf(p, s) ==
    /\ p # << >>
    /\ p[1] \notin Whitespace
    /\ p[Len(p)] \notin Whitespace
    /\ \E a \in 0..Len(s) :
          /\ a + Len(p) <= Len(s)
          /\ SubSeq(s, a + 1, a + Len(p)) = p
          /\ \A i \in 1..a : s[i] \in Whitespace
          /\ \A i \in (a + Len(p) + 1)..Len(s) : s[i] \in Whitespace

\* C13: no two OTP records share a phone.  A request for a code with a
\* blank phone fails InvalidInput and writes nothing; with any other phone
\* it succeeds and the record of the trimmed phone holds the demo code: the
\* record is added when the phone had none, and a repeated request leaves
\* the collection as the first one left it.
C13_OneRecordPerPhone ==
    /\ \A i, j \in DOMAIN otp : i # j => otp[i].phone # otp[j].phone
    /\ \A k \in DOMAIN log :
          LET e == log[k] IN
          e.req.op = "request_otp" =>
             /\ e.post.session = e.pre.session
             /\ Blank(e.req.phone) =>
                   /\ e.res = "InvalidInput"
                   /\ e.post.otp = e.pre.otp
             /\ ~Blank(e.req.phone) =>
                   /\ e.res = "ok"
                   /\ \E i \in DOMAIN e.post.otp :
                         /\ IsTrimOf(e.post.otp[i].phone, e.req.phone)
                         /\ e.post.otp[i].code = DemoCode
                         /\ IF \E j \in DOMAIN e.pre.otp :
                                  e.pre.otp[j].phone = e.post.otp[i].phone
                            THEN e.post.otp = e.pre.otp
                            ELSE e.post.otp = Append(e.pre.otp, e.post.otp[i])

\* a code is requested again, with whitespace around a registered phone
C13_Witness ==
    \E k \in DOMAIN log :
        /\ log[k].req.op = "request_otp"
        /\ log[k].res = "ok"
        /\ log[k].req.phone = <<" ", "7", "\t">>
        /\ StoredCodes(log[k].pre.otp, <<"7">>) = {DemoCode}
        /\ Len(otp) = 3


\* the collections of the store
store == << product, cart, otp, session >>

\* C14 (SpecSeq): the lookup of an update that finds no cart document with
\* the identity ends the request with NotFound, and the step leaves every
\* collection as it was: no cart is created.
C14_UpdateAbsentCart ==
    [][\A t \in Threads :
          ( /\ pc[t] = "upd_find"
            /\ pc'[t] # "upd_find"
            /\ FindCart(cart, req[t].cid) = 0 ) =>
               /\ pc'[t] = "idle"
               /\ log' # << >>
               /\ log'[Len(log')].req = req[t]
               /\ log'[Len(log')].res = "NotFound"
               /\ store' = store]_vars

\* an update failed on an identity without a cart while another cart exists
C14_Witness ==
    \E k \in 1..Len(log) :
        /\ log[k].req.op = "update"
        /\ log[k].res = "NotFound"
        /\ FindCart(cart, log[k].req.cid) = 0
        /\ cart # << >>


\* C16 (SpecSeq): an update with a quantity > 0 and remove not set, on an
\* existing cart, returns ok and keeps every line item at its position with
\* its slug and size: the items with the (slug, size) of the request get
\* exactly the requested quantity, all others keep theirs.  When no item
\* matches, the cart is therefore unchanged and no item is created.
C16_UpdateSetsQuantity ==
    \A k \in 1..Len(log) :
        ( /\ log[k].req.op = "update"
          /\ log[k].req.hasQty /\ log[k].req.qty > 0
          /\ ~log[k].req.remove
          /\ log[k].pre # << >> ) =>
              LET a == ItemsOf(log[k].pre)
                  b == ItemsOf(log[k].post)
              IN  /\ log[k].res = "ok"
                  /\ Len(log[k].post) = Len(log[k].pre)
                  /\ Len(b) = Len(a)
                  /\ \A i \in 1..Len(a) :
                        /\ SamePair(b[i], a[i])
                        /\ b[i].qty = IF SamePair(a[i], log[k].req)
                                      THEN log[k].req.qty
                                      ELSE a[i].qty
                  /\ WithPair(a, log[k].req.slug, log[k].req.size) = << >> =>
                        log[k].post = log[k].pre

\* a quantity is set on a cart of two lines, the matching one in front
C16_Witness ==
    \E k \in 1..Len(log) :
        /\ log[k].req.op = "update" /\ log[k].res = "ok"
        /\ log[k].req.hasQty /\ log[k].req.qty > 0 /\ ~log[k].req.remove
        /\ Len(ItemsOf(log[k].pre)) = 2
        /\ SamePair(ItemsOf(log[k].pre)[1], log[k].req)
        /\ ItemsOf(log[k].pre)[1].qty # log[k].req.qty
        /\ ItemsOf(log[k].post)[1].qty = log[k].req.qty
        /\ ItemsOf(log[k].post)[2] = ItemsOf(log[k].pre)[2]

\* the same request on a cart that holds other lines only
C16_WitnessNoMatch ==
    \E k \in 1..Len(log) :
        /\ log[k].req.op = "update" /\ log[k].res = "ok"
        /\ log[k].req.hasQty /\ log[k].req.qty > 0 /\ ~log[k].req.remove
        /\ ItemsOf(log[k].pre) # << >>
        /\ WithPair(ItemsOf(log[k].pre), log[k].req.slug, log[k].req.size) = << >>


\* the finished requests of the log that named an identity without a cart
OnAbsentCart == {k \in 1..Len(log) : log[k].pre = << >>}

\* C15 (SpecLife), as claimed: after any fetch, add or update on an identity
\* that has no cart, a cart document for that identity exists.
C15_AnyCallCreates ==
    \A k \in OnAbsentCart :
        log[k].req.op \in {"get", "add", "update"} => log[k].post # << >>

\* C15 (SpecLife), amended: after a fetch, or an add whose slug and size
\* resolve, on an identity that has no cart, exactly one cart document for
\* that identity exists, empty after the fetch; an update on such an
\* identity fails NotFound and an add may fail NotFound or InvalidState,
\* and after these no cart document for the identity exists.
C15_FetchOrAddCreates ==
    \A k \in OnAbsentCart :
        LET e == log[k] IN
        /\ e.req.op = "get" =>
              /\ e.res = "ok"
              /\ Len(e.post) = 1
              /\ e.post[1].id = e.req.cid
              /\ e.post[1].items = << >>
        /\ e.req.op = "add" /\ e.res \notin {"NotFound", "InvalidState"} =>
              /\ e.res = "ok"
              /\ Len(e.post) = 1
              /\ e.post[1].id = e.req.cid
        /\ e.req.op = "add" /\ e.res \in {"NotFound", "InvalidState"} =>
              e.post = << >>
        /\ e.req.op = "update" =>
              /\ e.res = "NotFound"
              /\ e.post = << >>

\* an add created the second cart of the store
C15_Witness ==
    \E k \in OnAbsentCart :
        /\ log[k].req.op = "add"
        /\ log[k].res = "ok"
        /\ Len(log[k].post) = 1
        /\ Len(cart) = 2


\* the fields of a persisted line item
ItemFields == {"slug", "size", "qty"}

\* C17 (Spec): the steps of a fetch that found its cart leave the cart
\* collection as it was, and no cart document ever carries a subtotal field
\* or a line item with a field besides slug, size and quantity.
C17_ViewNeverPersisted ==
    [][/\ \A t \in Threads :
             ( /\ pc[t] \in {"get_find", "get_enrich"}
               /\ pc'[t] # pc[t]
               /\ FindCart(cart, req[t].cid) # 0 ) => cart' = cart
       /\ \A d \in 1..Len(cart') :
             /\ ~cart'[d].subtotal
             /\ \A i \in 1..Len(cart'[d].items) :
                   DOMAIN cart'[d].items[i] = ItemFields]_vars


\* the outcomes of an add that fails on the slug or on the size
AddFailures == {"NotFound", "InvalidState"}

\* C19 (SpecAdds): an add fails NotFound or InvalidState at the product
\* lookup only, and that step leaves every collection as it was; the cart
\* named by a failed add is afterwards what it was before the request.
C19_FailedAddWritesNothing ==
    [][/\ \A t \in Threads :
             (pc[t] = "add_product" /\ pc'[t] = "idle") =>
                /\ store' = store
                /\ log'[Len(log')].req = req[t]
                /\ log'[Len(log')].res \in AddFailures
       /\ \A k \in 1..Len(log') :
             log'[k].res \in AddFailures =>
                /\ log'[k].req.op = "add"
                /\ log'[k].post = log'[k].pre]_vars

\* an add without a size failed on a sold-out product, the cart holding a line
C19_Witness ==
    \E k \in 1..Len(log) :
        /\ log[k].res = "InvalidState"
        /\ ItemsOf(log[k].pre) # << >>
        /\ cart # << >>

\* an add of an unknown slug failed on an identity without a cart
C19_WitnessNotFound ==
    \E k \in 1..Len(log) :
        /\ log[k].res = "NotFound"
        /\ log[k].pre = << >>
        /\ FindCart(cart, log[k].req.cid) = 0

\* the size labels a product declares
Declared(p) == {p.sizes[i].size : i \in 1..Len(p.sizes)}

Seeding == {t \in Threads : pc[t] \in {"seed_1", "seed_2", "seed_3", "seed_recount"}}

\* the product documents with this slug
WithSlug(coll, slug) == {i \in 1..Len(coll) : coll[i].slug = slug}

\* C18 (SpecSeed): only a seed request writes to the product collection,
\* and once the seed requests have returned and the catalogue is populated,
\* each sample slug is the slug of exactly one product document.
C18_SeededOnce ==
    [][/\ product' # product => Seeding # {}
       /\ (Seeding' = {} /\ product' # << >>) =>
             \A i \in 1..Len(Sample) :
                Cardinality(WithSlug(product', Sample[i].slug)) = 1]_vars

====
